---- MODULE Spec2Model ----
(***************************************************************************)
(* Model of src/src/file-reorg-daemon.py: FileSyncManager, the polling     *)
(* daemon that moves date-named files from a source directory into         *)
(* <destination>/YYYY/MM/DD/ with a per-cycle thread pool, retries with    *)
(* exponential backoff, a quarantine folder and hourly-reset metrics.      *)
(*                                                                         *)
(* One main thread (run / process_files / log_metrics) and one task per    *)
(* submitted future (move_file_with_retry / move_file / quarantine_file).  *)
(* Each `x += 1` on a shared counter is a load step followed by a store    *)
(* step: the code takes no lock, so workers interleave between the two.    *)
(* The filesystem is one function from paths to contents; shutil.move is   *)
(* a same-volume rename that either happens or raises.                     *)
(***************************************************************************)
EXTENDS Integers, Sequences, FiniteSets, TLC

\* ---------------------------------------------------------------- bounds
MaxRetries == 3        \* max_retries is drawn from 1..MaxRetries
MaxWorkers == 2        \* max_workers is drawn from 1..MaxWorkers
MoveSeconds == 1       \* the elapsed_time measured for a move
MaxTicks == 2          \* time.time() returns 0..MaxTicks clock ticks
DiskBlocks == 10       \* total blocks reported by shutil.disk_usage

\* ------------------------------------------------------- program constants
ERROR_THRESHOLD == 5           \* ERROR_THRESHOLD = 5.0, a percentage
ROLLOVER_SECONDS == 3600       \* log_metrics: elapsed_time > 3600
BACKOFF_BASE == 2              \* time.sleep(2 ** attempts)
DISK_FLOOR_PERCENT == 10       \* check_disk_space: free / total > 0.1
TickSeconds == ROLLOVER_SECONDS    \* seconds per clock tick
\* Free blocks shutil.disk_usage may report: none, a tenth or less, more.
FreeChoices == {0, DiskBlocks \div 10, DiskBlocks \div 10 + 1}

\* ------------------------------------------------------------ file names
\* A basename is a sequence of characters.
Digits == {"0", "1", "2", "3", "4", "5", "6", "7", "8", "9"}

NameA == <<"2", "0", "2", "4", "-", "0", "1", "-", "0", "5", "_", "a">>
NameB == <<"2", "0", "2", "3", "-", "1", "1", "-", "0", "2", "_", "b">>
NameC == <<"2", "0", "2", "4", "-", "0", "1", "-", "0", "5", "_", "c">>
NameNotes == <<"n", "o", "t", "e", "s">>
NameDir == <<"2", "0", "2", "4", "-", "0", "1", "-", "0", "6">>

\* Regular files that may show up in the source directory.
DatedNames == {NameA, NameB, NameC}
RegularNames == DatedNames \cup {NameNotes}
\* A sub-directory of the source directory (os.path.isfile is false for it).
DirNames == {NameDir}
Names == RegularNames \cup DirNames
\* The order in which os.listdir returns the entries it finds.
ListOrder == <<NameA, NameB, NameC, NameNotes, NameDir>>
\* Names are labels: a new dated file takes the first name not used so far.
DatedOrder == <<NameA, NameB, NameC>>
FirstDated(k) == {DatedOrder[j] : j \in 1..k}

\* RE_FILENAME_WITH_DATE.match(name): ^([0-9]{4})-([0-9]{2})-([0-9]{2})
RE_FILENAME_WITH_DATE(name) ==
    /\ Len(name) >= 10
    /\ \A i \in {1, 2, 3, 4, 6, 7, 9, 10} : name[i] \in Digits
    /\ name[5] = "-"
    /\ name[8] = "-"

\* A bug: the groups are taken as (day, month, year).
DateGroups_DayFirst(name) ==
    <<SubSeq(name, 9, 10), SubSeq(name, 6, 7), SubSeq(name, 1, 4)>>

\* date_match.groups(): (year, month, day)
DateGroups(name) ==
    <<SubSeq(name, 1, 4), SubSeq(name, 6, 7), SubSeq(name, 9, 10)>>

\* ----------------------------------------------------------------- paths
\* A path is a sequence of components; os.path.join appends one.
source == <<"in">>
destination == <<"out">>
quarantine_folder == <<"quarantine">>

Join(dir, name) == Append(dir, name)
Basename(path) == path[Len(path)]
SrcPath(name) == Join(source, name)

\* move_file: os.path.join(destination, year, month, day) / basename
DestDir(src_path) ==
    LET g == DateGroups(Basename(src_path))
    IN  destination \o <<g[1], g[2], g[3]>>

MoveTarget(src_path) == Join(DestDir(src_path), Basename(src_path))

\* quarantine_file: os.path.join(quarantine_folder, basename)
QuarantinePath(src_path) == Join(quarantine_folder, Basename(src_path))

SourcePaths == {SrcPath(n) : n \in Names}
DatedPaths == {p \in SourcePaths : RE_FILENAME_WITH_DATE(Basename(p))}
AllPaths ==
    SourcePaths \cup {MoveTarget(p) : p \in DatedPaths}
                \cup {QuarantinePath(p) : p \in SourcePaths}

\* Contents of a path: nothing, a directory, or the data of the file that
\* arrived in the source under the given name.
NoFile == <<"none">>
Directory == <<"dir">>
DataOf(name) == <<"data", name>>
\* A file that is in the destination tree before the daemon starts.
Existing == <<"existing">>
\* The destination paths that may hold such a file.
ExistingTargets == {MoveTarget(SrcPath(NameA))}

\* ----------------------------------------------------------------- state
VARIABLES
    max_retries,            \* self.max_retries
    max_workers,            \* self.max_workers
    files,                  \* the filesystem: path -> contents
    arrived,                \* names that have ever been put in the source
    processed_files,        \* self.processed_files
    success_count,          \* self.success_count
    failure_count,          \* self.failure_count
    total_processing_time,  \* self.total_processing_time
    start_time,             \* self.start_time
    disk_free,              \* free blocks last reported by shutil.disk_usage
    mainPc,                 \* where the main thread is in run()/process_files()
    listing,                \* entries of os.listdir still to be iterated
    futures,                \* the tasks of the thread pool, in submission order
    run_exc,                \* the exception that ended run(), if any
    alert                   \* whether the last log_metrics warned of a high error rate

vars == <<max_retries, max_workers, files, arrived, processed_files,
          success_count, failure_count, total_processing_time, start_time,
          disk_free, mainPc, listing, futures, run_exc, alert>>

config == <<max_retries, max_workers>>
metrics == <<success_count, failure_count, total_processing_time, start_time>>
mainVars == <<mainPc, listing, run_exc, alert, disk_free>>

\* The methods class FileSyncManager defines.
Methods == {"__init__", "run", "process_files", "is_file_processed",
            "mark_as_processed", "move_file_with_retry", "move_file",
            "quarantine_file", "check_disk_space", "log_metrics"}

\* --------------------------------------------------------------- helpers
RECURSIVE Pow(_, _)
Pow(b, e) == IF e = 0 THEN 1 ELSE b * Pow(b, e - 1)

MoveEvent(ok) == [op |-> "move", ok |-> ok, secs |-> 0]
SleepEvent(secs) == [op |-> "sleep", ok |-> TRUE, secs |-> secs]
QuarantineEvent(ok) == [op |-> "quarantine", ok |-> ok, secs |-> 0]

\* executor.submit(self.move_file_with_retry, src_path): a pending future.
\* trace, succ_incs and fail_incs record what the invocation has done so far.
NewTask(src_path) ==
    [path |-> src_path, pc |-> "queued", attempts |-> 0, reg |-> 0,
     elapsed |-> 0, trace |-> <<>>,
     succ_incs |-> 0, fail_incs |-> 0]

EndedPcs == {"done", "raised"}
ThreadEnded(t) == t.pc \in EndedPcs
Active(t) == t.pc \notin EndedPcs \cup {"queued"}

\* A bug: a future is taken for finished while its task still runs.
FutureDone_NoWait(t) == TRUE

\* Future.done(): what as_completed and the executor's shutdown wait for.
FutureDone(t) == ThreadEnded(t)

\* is_file_processed
is_file_processed(src_path) == src_path \in processed_files

\* os.path.isfile
IsFile(path) == files[path] \notin {NoFile, Directory}

\* A bug: >= for >, so that exactly a tenth free passes.
check_disk_space_AtLeast(free, total) == free * 100 >= DISK_FLOOR_PERCENT * total

\* check_disk_space: free / total > 0.1
check_disk_space(free, total) == free * 100 > DISK_FLOOR_PERCENT * total

\* The dispatch condition of process_files.
Eligible(name) ==
    /\ IsFile(SrcPath(name))
    /\ ~is_file_processed(SrcPath(name))
    /\ RE_FILENAME_WITH_DATE(name)

\* A bug: the file is copied and the original is left where it was.
Rename_Copy(fs, src, dst) == [fs EXCEPT ![dst] = fs[src]]

\* shutil.move(src, dst) as a rename: dst takes src's contents.
Rename(fs, src, dst) == [fs EXCEPT ![dst] = fs[src], ![src] = NoFile]

\* ------------------------------------------------------------------ Init
Init ==
    /\ max_retries \in 1..MaxRetries
    /\ max_workers \in 1..MaxWorkers
    /\ \E k \in 0..Len(DatedOrder) :
       LET present == FirstDated(k) \cup {NameNotes} \cup DirNames IN
         /\ arrived = present
         /\ \E old \in SUBSET ExistingTargets :
              files = [p \in AllPaths |->
                         IF p \in SourcePaths /\ Basename(p) \in present
                         THEN (IF Basename(p) \in DirNames THEN Directory
                               ELSE DataOf(Basename(p)))
                         ELSE IF p \in old THEN Existing
                         ELSE NoFile]
    /\ processed_files = {}
    /\ success_count = 0
    /\ failure_count = 0
    /\ total_processing_time = 0
    /\ start_time = 0
    /\ disk_free = 0
    /\ mainPc = "check_disk"
    /\ listing = <<>>
    /\ futures = <<>>
    /\ run_exc = "none"
    /\ alert = FALSE

\* ----------------------------------------------------------- environment
\* A file or directory with a name not used before appears in the source.
\* The daemon looks at the source only in os.listdir, so an arrival at any
\* time is seen as one during the sleep before it.
Arrive(name) ==
    /\ mainPc = "sleep"
    /\ name \notin arrived
    /\ \E k \in 1..Len(DatedOrder) :
         name = DatedOrder[k] /\ FirstDated(k - 1) \subseteq arrived
    /\ arrived' = arrived \cup {name}
    /\ files' = [files EXCEPT ![SrcPath(name)] =
                    IF name \in DirNames THEN Directory ELSE DataOf(name)]
    /\ UNCHANGED <<config, processed_files, metrics, mainVars, futures>>

\* ----------------------------------------------------- main thread: run()
\* run, line 39: if self.check_disk_space(): ... else: warn and fall to the sleep.
CheckDisk ==
    /\ mainPc = "check_disk"
    /\ \E free \in FreeChoices :
         /\ disk_free' = free
         /\ mainPc' = IF check_disk_space(free, DiskBlocks) THEN "listdir" ELSE "sleep"
    /\ UNCHANGED <<config, files, arrived, processed_files, metrics,
                   listing, futures, run_exc, alert>>

\* process_files, lines 48-50: a new executor and futures list, then
\* os.listdir(self.source), which raises when the directory cannot be listed;
\* nothing in process_files or run catches it.
ListDir ==
    /\ mainPc = "listdir"
    /\ \E listable \in BOOLEAN :
         IF listable
         THEN /\ listing' = SelectSeq(ListOrder,
                                       LAMBDA n : files[SrcPath(n)] # NoFile)
              /\ mainPc' = "dispatch"
              /\ run_exc' = run_exc
         ELSE /\ listing' = <<>>
              /\ mainPc' = "crashed"
              /\ run_exc' = "listdir"
    /\ UNCHANGED <<config, files, arrived, processed_files, metrics,
                   disk_free, futures, alert>>

\* process_files, lines 50-57: the for loop, which submits one task per
\* eligible entry.  No task reads or writes what the loop reads of another
\* entry, so the loop is taken as one step.
Dispatch ==
    /\ mainPc = "dispatch"
    /\ LET eligible == SelectSeq(listing, Eligible)
       IN  futures' = futures \o
                [k \in 1..Len(eligible) |-> NewTask(SrcPath(eligible[k]))]
    /\ listing' = <<>>
    /\ mainPc' = "as_completed"
    /\ UNCHANGED <<config, files, arrived, processed_files, metrics,
                   disk_free, run_exc, alert>>

\* A bug: the executor is shut down with wait=False.
ShutdownWait_False(fs) == TRUE

\* Leaving the with block: executor.shutdown(wait=True).
ShutdownWait(fs) == \A i \in 1..Len(fs) : FutureDone(fs[i])

\* Every future has been yielded by as_completed and none had an exception:
\* the with block is left and process_files returns, dropping its executor
\* and its futures list (a thread that had not ended would run on).
ProcessFilesReturn ==
    /\ mainPc = "as_completed"
    /\ \A i \in 1..Len(futures) : FutureDone(futures[i]) /\ futures[i].pc # "raised"
    /\ ShutdownWait(futures)
    /\ mainPc' = "log_metrics"
    /\ futures' = SelectSeq(futures, LAMBDA t : ~ThreadEnded(t))
    /\ UNCHANGED <<config, files, arrived, processed_files, metrics,
                   disk_free, listing, run_exc, alert>>

\* process_files, lines 60-61: as_completed yields a finished future whose
\* task ended with an exception and future.result() re-raises it.  The
\* exception leaves the with block, which waits for the executor, and then
\* process_files and run, which do not catch it: the process ends.
ProcessFilesRaise(i) ==
    /\ mainPc = "as_completed"
    /\ i \in 1..Len(futures)
    /\ FutureDone(futures[i])
    /\ futures[i].pc = "raised"
    /\ ShutdownWait(futures)
    /\ mainPc' = "crashed"
    /\ run_exc' = "quarantine_file"
    /\ UNCHANGED <<config, files, arrived, processed_files, metrics,
                   disk_free, listing, futures, alert>>

\* A bug: the threshold is applied to the number of failures (as the comment
\* on line 11 has it) instead of to the error rate.
HighErrorRate_Count(succ, fail) == fail > ERROR_THRESHOLD

\* error_rate > ERROR_THRESHOLD, with error_rate = failures / total * 100
\* and 0 when total is 0.
HighErrorRate(succ, fail) ==
    /\ succ + fail # 0
    /\ fail * 100 > ERROR_THRESHOLD * (succ + fail)

\* log_metrics, lines 115-142.
LogMetrics ==
    /\ mainPc = "log_metrics"
    /\ \E tick \in 0..MaxTicks :
         LET current_time == start_time + tick * TickSeconds
             elapsed_time == current_time - start_time
         IN  /\ current_time <= MaxTicks * TickSeconds
             /\ alert' = HighErrorRate(success_count, failure_count)
             /\ IF elapsed_time > ROLLOVER_SECONDS
                THEN /\ start_time' = current_time
                     /\ success_count' = 0
                     /\ failure_count' = 0
                     /\ total_processing_time' = 0
                ELSE UNCHANGED metrics
    /\ mainPc' = "sleep"
    /\ UNCHANGED <<config, files, arrived, processed_files, disk_free,
                   listing, futures, run_exc>>

\* run, line 44: time.sleep(self.poll_interval), then the next iteration.
Sleep ==
    /\ mainPc = "sleep"
    /\ mainPc' = "check_disk"
    /\ UNCHANGED <<config, files, arrived, processed_files, metrics,
                   disk_free, listing, futures, run_exc, alert>>

\* ------------------------------------------- workers: move_file_with_retry
\* A step that touches only the task's own locals and its own file is taken
\* together with the next access to shared state: no other thread can tell.
mainAndEnv == <<mainPc, listing, run_exc, alert, disk_free, arrived>>

\* A bug: the executor has no worker thread to give a task to.
CanStart_Never(fs, i) == FALSE

\* The executor runs at most max_workers tasks at a time, oldest first.
CanStart(fs, i) ==
    /\ fs[i].pc = "queued"
    /\ \A j \in 1..(i - 1) : fs[j].pc # "queued"
    /\ Cardinality({j \in 1..Len(fs) : Active(fs[j])}) < max_workers

\* A bug: a linear backoff, 2 * attempts.
Backoff_Linear(attempts) == BACKOFF_BASE * attempts

\* The argument of time.sleep after the attempts-th failure.
Backoff(attempts) == Pow(BACKOFF_BASE, attempts)

Traced(t, event) == [t EXCEPT !.trace = Append(@, event)]

\* Lines 84-87, the except clause: attempts += 1, the warning,
\* time.sleep(2 ** attempts), and back to the loop test.
Except(t) ==
    [t EXCEPT !.pc = "loop",
              !.attempts = @ + 1,
              !.trace = Append(@, SleepEvent(Backoff(t.attempts + 1)))]

\* A bug: the file is moved into the quarantine folder.
move_file_ToQuarantine(fs, src_path) ==
    Rename(fs, src_path, QuarantinePath(src_path))

\* move_file, lines 94-100: when the basename carries a date, the file is
\* renamed to <destination>/YYYY/MM/DD/<basename>; otherwise nothing is done.
move_file(fs, src_path) ==
    IF RE_FILENAME_WITH_DATE(Basename(src_path))
    THEN Rename(fs, src_path, MoveTarget(src_path))
    ELSE fs

\* Lines 74-79 and 84-87: the loop test and one call of move_file, which
\* moves the file or raises (a file that is not there cannot be moved).
\* After a move the task reads success_count for line 79's += 1; an
\* exception goes to the except clause.
TryMove(i) ==
    /\ i \in 1..Len(futures)
    /\ futures[i].pc = "loop" \/ CanStart(futures, i)
    /\ futures[i].attempts < max_retries
    /\ \E ok \in BOOLEAN :
         /\ ok => IsFile(futures[i].path)
         /\ IF ok
            THEN /\ files' = move_file(files, futures[i].path)
                 /\ futures' = [futures EXCEPT
                        ![i] = [Traced(@, MoveEvent(TRUE)) EXCEPT
                                   !.pc = "l79_store",
                                   !.elapsed = MoveSeconds,
                                   !.reg = success_count]]
            ELSE /\ files' = files
                 /\ futures' = [futures EXCEPT
                        ![i] = Except(Traced(@, MoveEvent(FALSE)))]
    /\ UNCHANGED <<config, processed_files, metrics, mainAndEnv>>

\* Line 79, self.success_count += 1: the write.
SuccessStore(i) ==
    /\ i \in 1..Len(futures)
    /\ futures[i].pc = "l79_store"
    /\ success_count' = futures[i].reg + 1
    /\ futures' = [futures EXCEPT ![i].pc = "l80_load", ![i].reg = 0,
                                  ![i].succ_incs = @ + 1]
    /\ UNCHANGED <<config, files, processed_files, failure_count,
                   total_processing_time, start_time, mainAndEnv>>

\* Line 80, self.total_processing_time += elapsed_time: the read.
TimeLoad(i) ==
    /\ i \in 1..Len(futures)
    /\ futures[i].pc = "l80_load"
    /\ futures' = [futures EXCEPT ![i].pc = "l80_store",
                                  ![i].reg = total_processing_time]
    /\ UNCHANGED <<config, files, processed_files, metrics, mainAndEnv>>

\* Line 82, self.mark_file_as_processed(src_path): the class defines
\* mark_as_processed only, so the attribute lookup raises AttributeError
\* inside the try block and the except clause takes it for a failed attempt.
MarkProcessed(t) ==
    IF "mark_file_as_processed" \in Methods
    THEN [t EXCEPT !.pc = "done"]
    ELSE Except(t)

\* Line 80, the write, then lines 81-83 (or 84-87).
TimeStore(i) ==
    /\ i \in 1..Len(futures)
    /\ futures[i].pc = "l80_store"
    /\ total_processing_time' = futures[i].reg + futures[i].elapsed
    /\ futures' = [futures EXCEPT
           ![i] = MarkProcessed([@ EXCEPT !.reg = 0, !.elapsed = 0])]
    /\ processed_files' = IF "mark_file_as_processed" \in Methods
                          THEN processed_files \cup {futures[i].path}
                          ELSE processed_files
    /\ UNCHANGED <<config, files, success_count, failure_count, start_time,
                   mainAndEnv>>

\* Lines 90 and 104-107: the loop is exhausted and quarantine_file moves the
\* file to the quarantine folder and reads failure_count for line 107's
\* += 1, or shutil.move raises out of quarantine_file and of the task.
Quarantine(i) ==
    /\ i \in 1..Len(futures)
    /\ futures[i].pc = "loop" \/ CanStart(futures, i)
    /\ futures[i].attempts >= max_retries
    /\ \E ok \in BOOLEAN :
         /\ ok => files[futures[i].path] # NoFile
         /\ IF ok
            THEN /\ files' = Rename(files, futures[i].path,
                                    QuarantinePath(futures[i].path))
                 /\ futures' = [futures EXCEPT
                        ![i] = [Traced(@, QuarantineEvent(TRUE)) EXCEPT
                                   !.pc = "l107_store",
                                   !.reg = failure_count]]
            ELSE /\ files' = files
                 /\ futures' = [futures EXCEPT
                        ![i] = [Traced(@, QuarantineEvent(FALSE)) EXCEPT
                                   !.pc = "raised"]]
    /\ UNCHANGED <<config, processed_files, metrics, mainAndEnv>>

\* A bug: quarantine_file returns without counting the failure.
FailureStore_NotCounted(i) ==
    /\ i \in 1..Len(futures)
    /\ futures[i].pc = "l107_store"
    /\ futures' = [futures EXCEPT ![i].pc = "done", ![i].reg = 0]
    /\ UNCHANGED <<config, files, processed_files, metrics, mainAndEnv>>

\* Line 107, the write; quarantine_file and move_file_with_retry return.
FailureStore(i) ==
    /\ i \in 1..Len(futures)
    /\ futures[i].pc = "l107_store"
    /\ failure_count' = futures[i].reg + 1
    /\ futures' = [futures EXCEPT ![i].pc = "done", ![i].reg = 0,
                                  ![i].fail_incs = @ + 1]
    /\ UNCHANGED <<config, files, processed_files, success_count,
                   total_processing_time, start_time, mainAndEnv>>

\* ------------------------------------------------------------------ Next
MaxFutures == Cardinality(Names)

Main ==
    \/ CheckDisk
    \/ ListDir
    \/ Dispatch
    \/ ProcessFilesReturn
    \/ \E i \in 1..MaxFutures : ProcessFilesRaise(i)
    \/ LogMetrics
    \/ Sleep

Worker(i) ==
    \/ TryMove(i)
    \/ SuccessStore(i)
    \/ TimeLoad(i)
    \/ TimeStore(i)
    \/ Quarantine(i)
    \/ FailureStore(i)

Next ==
    \/ Main
    \/ \E i \in 1..MaxFutures : Worker(i)
    \/ \E n \in DatedNames : Arrive(n)

Spec == Init /\ [][Next]_vars

\* ----------------------------------------------------- termination signals
\* The program installs no signal handler (it does not import signal), so a
\* signal has Python's default effect.
Running == mainPc \notin {"crashed", "killed", "exited", "with_exit"}

\* The statements of process_files inside `with ThreadPoolExecutor(...)`.
InWithBlock == mainPc \in {"listdir", "dispatch", "as_completed"}

\* SIGTERM: the process is ended at once, every thread with it: a running
\* task stops where it is and a queued one is never run.
SigTerm ==
    /\ Running \/ mainPc = "with_exit"
    /\ mainPc' = "killed"
    /\ futures' = [i \in 1..Len(futures) |->
                     IF ThreadEnded(futures[i]) THEN futures[i]
                     ELSE [futures[i] EXCEPT
                             !.pc = IF @ = "queued" THEN "dropped" ELSE "killed"]]
    /\ UNCHANGED <<config, files, arrived, processed_files, metrics,
                   disk_free, listing, run_exc, alert>>

\* SIGINT: KeyboardInterrupt is raised in the main thread.  Nothing catches
\* it; inside the with block it first runs executor.shutdown(wait=True),
\* which lets the workers take every task still queued.
SigInt ==
    /\ Running
    /\ mainPc' = IF InWithBlock THEN "with_exit" ELSE "exited"
    /\ run_exc' = "KeyboardInterrupt"
    /\ listing' = <<>>
    /\ UNCHANGED <<config, files, arrived, processed_files, metrics,
                   disk_free, futures, alert>>

\* The with block has waited for the executor; KeyboardInterrupt leaves
\* process_files and run, and the process ends.
InterruptedExit ==
    /\ mainPc = "with_exit"
    /\ ShutdownWait(futures)
    /\ mainPc' = "exited"
    /\ UNCHANGED <<config, files, arrived, processed_files, metrics,
                   disk_free, listing, futures, run_exc, alert>>

NextSignal ==
    \/ Next
    \/ SigTerm
    \/ SigInt
    \/ InterruptedExit

\* Fair scheduling: the main thread and every worker thread keep running,
\* and every call they make returns or raises.
FairSpec ==
    /\ Spec
    /\ WF_vars(Main)
    /\ \A i \in 1..MaxFutures : WF_vars(Worker(i))

SpecSignal == Init /\ [][NextSignal]_vars

\* ======================================================================
\* Properties
\* ======================================================================
Tasks == {futures[i] : i \in 1..Len(futures)}

MovesMade(t) == {k \in 1..Len(t.trace) : t.trace[k].op = "move"}
MovedAt(t, k) == k \in 1..Len(t.trace) /\ t.trace[k] = MoveEvent(TRUE)
NeverMoved(t) == \A k \in 1..Len(t.trace) : ~MovedAt(t, k)
LastEvent(t) == t.trace[Len(t.trace)]

\* All max_retries attempts of the invocation were made and failed.
AllAttemptsFailed(t) ==
    /\ NeverMoved(t)
    /\ Cardinality(MovesMade(t)) = max_retries

TheData(path) == DataOf(Basename(path))

\* The file is in the quarantine folder and nowhere else.
OnlyInQuarantine(path) ==
    /\ files[QuarantinePath(path)] = TheData(path)
    /\ files[path] = NoFile
    /\ files[MoveTarget(path)] # TheData(path)

FailedThenMoved(t) ==
    /\ Len(t.trace) >= 3
    /\ t.trace[1] = MoveEvent(FALSE)
    /\ t.trace[2].op = "sleep"
    /\ t.trace[3] = MoveEvent(TRUE)

C3_SuccessIsTerminal ==
    \A t \in Tasks :
        /\ \A k \in 1..Len(t.trace) : MovedAt(t, k) => k = Len(t.trace)
        /\ ~NeverMoved(t) => t.pc # "raised"

\* C4: a quarantine move that fails does not end the daemon.
C4_QuarantineFailureNotFatal ==
    (\E t \in Tasks : Len(t.trace) > 0 /\ LastEvent(t) = QuarantineEvent(FALSE))
        => mainPc # "crashed"

\* C5: no two invocations that have not finished are for the same path.
C5_OneInvocationPerPath ==
    \A i, j \in 1..Len(futures) :
        (i # j /\ ~ThreadEnded(futures[i]) /\ ~ThreadEnded(futures[j]))
            => futures[i].path # futures[j].path

\* Two invocations run at once, in a cycle after one that quarantined a file.
C5_Witness ==
    /\ \E i, j \in 1..Len(futures) :
         i # j /\ Active(futures[i]) /\ Active(futures[j])
    /\ \E n \in DatedNames :
         /\ files[QuarantinePath(SrcPath(n))] = DataOf(n)
         /\ \A t \in Tasks : t.path # SrcPath(n)

Vetoed(free) == free * 10 <= DiskBlocks

QuarantineAndDestination ==
    [p \in AllPaths \ SourcePaths |-> files[p]]

C7_SourceUnavailableNotFatal ==
    run_exc = "listdir" => mainPc # "crashed"

RECURSIVE TwoToThe(_)
TwoToThe(k) == IF k = 0 THEN 1 ELSE 2 * TwoToThe(k - 1)

\* C8: in an invocation whose attempts all fail, the events are: attempt,
\* sleep 2, attempt, sleep 4, ..., attempt, sleep 2^max_retries, and then
\* the quarantine move: max_retries attempts, the k-th followed by a sleep
\* of 2^k seconds.
C8_AttemptsAndBackoff ==
    \A t \in Tasks :
        NeverMoved(t) =>
            /\ Len(t.trace) <= 2 * max_retries + 1
            /\ \A k \in 1..Len(t.trace) :
                 IF k = 2 * max_retries + 1 THEN t.trace[k].op = "quarantine"
                 ELSE IF k % 2 = 1 THEN t.trace[k] = MoveEvent(FALSE)
                 ELSE t.trace[k] = SleepEvent(TwoToThe(k \div 2))
            /\ ThreadEnded(t) => Len(t.trace) = 2 * max_retries + 1

C8_Witness ==
    \E t \in Tasks :
        /\ max_retries = 3
        /\ Len(t.trace) = 7
        /\ SubSeq(t.trace, 1, 6) =
              <<MoveEvent(FALSE), SleepEvent(2), MoveEvent(FALSE), SleepEvent(4),
                MoveEvent(FALSE), SleepEvent(8)>>
        /\ t.trace[7].op = "quarantine"

\* C9: outside process_files' wait for its futures (that is, in log_metrics,
\* in the sleep, at the next cycle's start, and after an exception has left
\* process_files and run) no dispatched invocation is unfinished.
C9_CycleBarrier ==
    mainPc # "as_completed" => \A t \in Tasks : ThreadEnded(t)

\* An exception has left process_files after all three tasks of the cycle ended.
C9_Witness ==
    /\ mainPc = "crashed"
    /\ run_exc = "quarantine_file"
    /\ Len(futures) = 3
    /\ \E t \in Tasks : t.pc = "done"
    /\ \E t \in Tasks : t.pc = "raised"

\* C10: only log_metrics resets the window, and only by zeroing the three
\* counters and restarting the window more than 3600 s after its start; no
\* other step decreases a counter or moves the window start.
C10_ResetOnlyAtRollover ==
    [][/\ mainPc # "log_metrics"
          => /\ success_count' >= success_count
             /\ failure_count' >= failure_count
             /\ total_processing_time' >= total_processing_time
             /\ start_time' = start_time
       /\ mainPc = "log_metrics"
          => \/ UNCHANGED metrics
             \/ /\ success_count' = 0
                /\ failure_count' = 0
                /\ total_processing_time' = 0
                /\ start_time' - start_time > 3600]_vars

\* The invocation has moved its file to the destination or to quarantine.
ReachedOutcome(t) ==
    \/ ~NeverMoved(t)
    \/ Len(t.trace) > 0 /\ LastEvent(t) = QuarantineEvent(TRUE)

\* C11: when an invocation that moved its file to the destination or to the
\* quarantine folder has finished, its path is in processed_files.
C11_OutcomeIsMarkedProcessed ==
    \A t \in Tasks :
        (ThreadEnded(t) /\ ReachedOutcome(t)) => is_file_processed(t.path)

\* C12: no step changes a file that was in the destination tree before the
\* daemon started: a move onto it fails instead of overwriting it.
C12_NeverOverwrites ==
    [][\A p \in AllPaths \ SourcePaths :
          files[p] = Existing => files'[p] = Existing]_vars

\* <destination>/YYYY/MM/DD/<name>, where YYYY-MM-DD are the first ten
\* characters of the name.
IsDatedPlaceOf(p, name) ==
    /\ Len(p) = Len(destination) + 4
    /\ SubSeq(p, 1, Len(destination)) = destination
    /\ LET year == p[Len(destination) + 1]
           month == p[Len(destination) + 2]
           day == p[Len(destination) + 3]
       IN  /\ Len(year) = 4 /\ Len(month) = 2 /\ Len(day) = 2
           /\ year \o <<"-">> \o month \o <<"-">> \o day = SubSeq(name, 1, 10)
    /\ p[Len(p)] = name

\* C13: once an invocation has moved its file, the file is at
\* <destination>/YYYY/MM/DD/<basename>, the three directories being the
\* three digit groups its basename starts with.
C13_DatedPlacement ==
    \A t \in Tasks :
        ~NeverMoved(t) =>
            \E p \in DOMAIN files :
                /\ IsDatedPlaceOf(p, Basename(t.path))
                /\ files[p] = TheData(t.path)

\* 2023-11-02_b has been moved to out/2023/11/02/2023-11-02_b.
C13_Witness ==
    /\ \E t \in Tasks : t.path = SrcPath(NameB) /\ ~NeverMoved(t)
    /\ files[<<"out", <<"2", "0", "2", "3">>, <<"1", "1">>, <<"0", "2">>, NameB>>]
          = DataOf(NameB)

\* C14: when a cycle has run to its end, no regular file whose name does
\* not start with a date is left in the source directory.
C14_UndatedFilesAreMoved ==
    mainPc = "log_metrics" =>
        \A n \in RegularNames :
            ~RE_FILENAME_WITH_DATE(n) => files[SrcPath(n)] = NoFile

\* C15: once a termination signal has been received no queued task is
\* started, and when the process has ended no task was cut off: each one
\* either ended or had never been started.
C15_GracefulShutdown ==
    [][/\ mainPc = "with_exit"
          => \A i \in 1..Len(futures) :
                futures[i].pc = "queued" => futures'[i].pc = "queued"
       /\ mainPc' \in {"killed", "exited"}
          => \A i \in 1..Len(futures') : futures'[i].pc # "killed"]_vars

\* C16: every completed `+= 1` of a worker raises its counter by exactly
\* one, whatever the other workers do meanwhile, so that the counters rise
\* by the number of files moved and quarantined.
C16_NoLostUpdate ==
    [][\A i \in 1..Len(futures) :
          i <= Len(futures') =>
            /\ futures'[i].succ_incs = futures[i].succ_incs + 1
                  => success_count' = success_count + 1
            /\ futures'[i].fail_incs = futures[i].fail_incs + 1
                  => failure_count' = failure_count + 1]_vars

\* failure_count / (success_count + failure_count) * 100 > 5.0, in whole
\* numbers: the quotient exceeds 5, or is 5 with a remainder.
RateAboveFivePercent(succ, fail) ==
    /\ succ + fail > 0
    /\ LET q == (fail * 100) \div (succ + fail)
           rem == (fail * 100) % (succ + fail)
       IN  q > 5 \/ (q = 5 /\ rem > 0)

PlacesOf(name) ==
    {SrcPath(name), QuarantinePath(SrcPath(name))}
        \cup (IF RE_FILENAME_WITH_DATE(name) THEN {MoveTarget(SrcPath(name))}
              ELSE {})

QuarantinesMade(t) == {k \in 1..Len(t.trace) : t.trace[k].op = "quarantine"}

\* C19: under fair scheduling no invocation makes more than max_retries
\* move attempts or more than one quarantine attempt, and whenever
\* process_files waits for its futures it eventually gives control back to
\* run, by returning or by raising.
C19_CycleTerminates ==
    /\ [](\A t \in Tasks :
            /\ Cardinality(MovesMade(t)) <= max_retries
            /\ Cardinality(QuarantinesMade(t)) <= 1)
    /\ (mainPc = "as_completed") ~> (mainPc \in {"log_metrics", "crashed"})

\* process_files has returned from a cycle that quarantined three files
\* after three attempts each.
C19_Witness ==
    /\ mainPc = "log_metrics"
    /\ max_retries = 3
    /\ \A n \in DatedNames : files[QuarantinePath(SrcPath(n))] = DataOf(n)

====
